---- MODULE Spec2Model ----
(***************************************************************************)
(* A model of scraper.py: the two extractors (scrape_dj_mag_json,          *)
(* scrape_dj_mag_html), write_csv and the year loop of main().             *)
(*                                                                         *)
(* Python strings are sequences of one-character strings.  A dictionary    *)
(* {'year','rank','name'} is a record.  Python's None in the 'rank' field  *)
(* is the integer NoneVal, which no position of a document equals.         *)
(***************************************************************************)
EXTENDS Integers, Sequences, FiniteSets, TLC

(***************************************************************************)
(* Bounds of the model.                                                    *)
(***************************************************************************)
\* current_year ranges over StartYear .. StartYear + MaxSpan
MaxSpan == 1
\* an archive page of the bounded family holds at most MaxLinks anchors
MaxLinks == 2
\* an ItemList of the bounded family holds at most MaxItems elements
MaxItems == 2

(***************************************************************************)
(* Program constants.                                                      *)
(***************************************************************************)
StartYear == 2004
TopN == 100
NoneVal == -1

(***************************************************************************)
(* Characters: the printable ASCII range, in code point order (the grave   *)
(* accent, code 96, is written \x60).                                      *)
(***************************************************************************)
Ascii ==
  << " ", "!", "\"", "#", "$", "%", "&", "'", "(", ")", "*", "+", ",", "-", ".", "/",
     "0", "1", "2", "3", "4", "5", "6", "7", "8", "9", ":", ";", "<", "=", ">", "?",
     "@", "A", "B", "C", "D", "E", "F", "G", "H", "I", "J", "K", "L", "M", "N", "O",
     "P", "Q", "R", "S", "T", "U", "V", "W", "X", "Y", "Z", "[", "\\", "]", "^", "_",
     "\\x60", "a", "b", "c", "d", "e", "f", "g", "h", "i", "j", "k", "l", "m", "n", "o",
     "p", "q", "r", "s", "t", "u", "v", "w", "x", "y", "z", "{", "|", "}", "~" >>

\* the code point of each character
OrdTable ==
  [c \in { Ascii[i] : i \in 1..Len(Ascii) } |->
     31 + (CHOOSE i \in 1..Len(Ascii) : Ascii[i] = c)]

\* ord(c)
Ord(c) == OrdTable[c]

\* chr(n), for a printable ASCII code
Chr(n) == Ascii[n - 31]

IsDigit(c) == Ord(c) \in 48..57

IsUpper(c) == Ord(c) \in 65..90

IsLower(c) == Ord(c) \in 97..122

IsCased(c) == IsUpper(c) \/ IsLower(c)

ToUpper(c) == IF IsLower(c) THEN Chr(Ord(c) - 32) ELSE c

ToLower(c) == IF IsUpper(c) THEN Chr(Ord(c) + 32) ELSE c

IsHex(c) == IsDigit(c) \/ Ord(c) \in 65..70 \/ Ord(c) \in 97..102

HexVal(c) ==
  IF IsDigit(c) THEN Ord(c) - 48
  ELSE IF IsUpper(c) THEN Ord(c) - 55 ELSE Ord(c) - 87

\* every character of s is a decimal digit
AllDigits(s) == \A i \in 1..Len(s) : IsDigit(s[i])

\* int(s) succeeds (the inputs hold no sign, blank or underscore)
IsInt(s) == Len(s) > 0 /\ AllDigits(s)

RECURSIVE ParseInt(_)
\* int(s), for a string of decimal digits
ParseInt(s) ==
  IF Len(s) = 0 THEN 0
  ELSE 10 * ParseInt(SubSeq(s, 1, Len(s) - 1)) + (Ord(s[Len(s)]) - 48)

RECURSIVE Split(_)
\* s.split('/')
Split(s) ==
  IF \A i \in 1..Len(s) : s[i] # "/" THEN << s >>
  ELSE LET k == CHOOSE i \in 1..Len(s) :
                  s[i] = "/" /\ \A j \in 1..(i - 1) : s[j] # "/"
       IN  << SubSeq(s, 1, k - 1) >> \o Split(SubSeq(s, k + 1, Len(s)))

RECURSIVE Unquote(_)
\* urllib.parse.unquote(s): %XX becomes the character of code XX (the inputs
\* escape printable ASCII only); a % not followed by two hex digits stays
Unquote(s) ==
  IF Len(s) = 0 THEN << >>
  ELSE IF /\ s[1] = "%"
          /\ Len(s) >= 3
          /\ IsHex(s[2])
          /\ IsHex(s[3])
          /\ (16 * HexVal(s[2]) + HexVal(s[3])) \in 32..126
       THEN << Chr(16 * HexVal(s[2]) + HexVal(s[3])) >> \o Unquote(SubSeq(s, 4, Len(s)))
       ELSE << s[1] >> \o Unquote(Tail(s))

\* s.replace('-', ' ')
ReplaceHyphens(s) == [i \in 1..Len(s) |-> IF s[i] = "-" THEN " " ELSE s[i]]

\* s.title(): a cased character is upper case after an uncased one (or at the
\* start) and lower case after a cased one
Title(s) ==
  [i \in 1..Len(s) |->
     IF i > 1 /\ IsCased(s[i - 1]) THEN ToLower(s[i]) ELSE ToUpper(s[i])]

\* unquote(name_slug).replace('-', ' ').title()
DeriveName(name_slug) == Title(ReplaceHyphens(Unquote(name_slug)))

\* l[-1]
Last(l) == l[Len(l)]

RECURSIVE StrLess(_, _)
\* a < b on Python strings: lexicographic by code point
StrLess(a, b) ==
  IF Len(b) = 0 THEN FALSE
  ELSE IF Len(a) = 0 THEN TRUE
  ELSE IF a[1] # b[1] THEN Ord(a[1]) < Ord(b[1])
  ELSE StrLess(Tail(a), Tail(b))

\* p < q on (rank, name) tuples
PairLess(p, q) == p[1] < q[1] \/ (p[1] = q[1] /\ StrLess(p[2], q[2]))

\* sorted(list(found_djs)): each tuple at the place given by the number of
\* tuples below it
SortedPairs(S) ==
  LET placed == { << 1 + Cardinality({ q \in S : PairLess(q, p) }), p >> : p \in S }
  IN  [i \in 1..Cardinality(S) |-> (CHOOSE t \in placed : t[1] = i)[2]]

(***************************************************************************)
(* scrape_dj_mag_html.  The response of requests.get for the archive page  *)
(* is [fetch, anchors]: fetch is "error" when requests.get or              *)
(* raise_for_status raises RequestException, and anchors are the href      *)
(* values of soup.find_all("a", href=True), in document order.             *)
(***************************************************************************)
Top100Djs == << "t", "o", "p", "1", "0", "0", "d", "j", "s" >>

\* dj_url_pattern.match(href).groups(), << >> when match returns None; the
\* pattern ^/top100djs/(\d{4})/(\d{1,3})/.+$ is read on the segments of href
\* between its slashes: an empty first segment, the literal, four digits, one
\* to three digits, and a non-empty remainder
Groups(href) ==
  LET segs == Split(href)
  IN  IF /\ Len(segs) >= 5
         /\ segs[1] = << >>
         /\ segs[2] = Top100Djs
         /\ Len(segs[3]) = 4 /\ AllDigits(segs[3])
         /\ Len(segs[4]) \in 1..3 /\ AllDigits(segs[4])
         /\ (Len(segs) > 5 \/ Len(segs[5]) > 0)
      THEN << segs[3], segs[4] >>
      ELSE << >>

\* "if match"
PatternMatches(href) == Groups(href) # << >>

\* int(match.group(1))
LinkYear(href) == ParseInt(Groups(href)[1])

\* int(match.group(2))
LinkRank(href) == ParseInt(Groups(href)[2])

\* unquote(href.split("/")[-1]).replace("-", " ").title()
LinkName(href) == DeriveName(Last(Split(href)))

\* line 77: the year test that guards found_djs.add
YearMatches(link_year, year_to_scrape) == link_year = year_to_scrape

\* the anchors that add to found_djs
KeepsLink(href, year_to_scrape) ==
  PatternMatches(href) /\ YearMatches(LinkYear(href), year_to_scrape)

\* found_djs after the loop over the anchors: a set of (rank, name) tuples
FoundDjs(anchors, year_to_scrape) ==
  { << LinkRank(anchors[i]), LinkName(anchors[i]) >> :
      i \in { j \in 1..Len(anchors) : KeepsLink(anchors[j], year_to_scrape) } }

\* the list of dictionaries built from the sorted tuples
HtmlRecords(pairs, year_to_scrape) ==
  [i \in 1..Len(pairs) |->
     [year |-> year_to_scrape, rank |-> pairs[i][1], name |-> pairs[i][2]]]

\* scrape_dj_mag_html with found_djs a list: sorted, but nothing is merged
ScrapeHtmlIntoList(page, year_to_scrape) ==
  LET kept == SelectSeq(page.anchors, LAMBDA h : KeepsLink(h, year_to_scrape))
      l == [i \in 1..Len(kept) |-> << LinkRank(kept[i]), LinkName(kept[i]) >>]
      place == [j \in 1..Len(l) |->
                  1 + Cardinality({ k \in 1..Len(l) :
                                      PairLess(l[k], l[j]) \/ (l[k] = l[j] /\ k < j) })]
  IN  IF page.fetch = "error" THEN << >>
      ELSE HtmlRecords([i \in 1..Len(l) |-> l[CHOOSE j \in 1..Len(l) : place[j] = i]],
                       year_to_scrape)

\* scrape_dj_mag_html(year_to_scrape) on the response page
scrape_dj_mag_html(page, year_to_scrape) ==
  IF page.fetch = "error" THEN << >>
  ELSE HtmlRecords(SortedPairs(FoundDjs(page.anchors, year_to_scrape)), year_to_scrape)

(***************************************************************************)
(* scrape_dj_mag_json.  The response for the main page is                  *)
(* [fetch, script, graph]: script is "absent" when soup.find returns None, *)
(* "undecodable" when json.loads raises on the tag's text, "array" when    *)
(* the text decodes to a list (which has no get), "object" when it decodes *)
(* to a dictionary whose "@graph" (a missing key reads as []) is graph.    *)
(* A node of the graph is [type, itemListElement]; an element is           *)
(* [position, has_url, url], has_url FALSE when the key is missing.        *)
(* The outcome is [raised, log, djs, skipped]: log is the message printed  *)
(* before an early return, skipped counts the "Skipping" messages.         *)
(***************************************************************************)
\* the exception the body of the try block raises on item, or "none"
ItemError(item) ==
  IF ~item.has_url THEN "AttributeError"
  ELSE IF Len(Split(item.url)) < 3 THEN "IndexError"
  ELSE IF ~IsInt(Split(item.url)[Len(Split(item.url)) - 2]) THEN "ValueError"
  ELSE "none"

\* int(dj_url.split("/")[-3])
UrlYear(url) == ParseInt(Split(url)[Len(Split(url)) - 2])

\* the loop body reaches djs.append for item
Appends(item, year_to_scrape) ==
  ItemError(item) = "none" /\ UrlYear(item.url) = year_to_scrape

\* the dictionary the loop body appends for item
ItemRecord(item) ==
  [year |-> UrlYear(item.url), rank |-> item.position,
   name |-> DeriveName(Last(Split(item.url)))]

\* JsonLoop with the try around the whole loop: the first malformed element
\* ends the extraction
JsonLoopAborting(elements, year_to_scrape) ==
  LET bad == { i \in 1..Len(elements) : ItemError(elements[i]) # "none" }
      stop == IF bad = {} THEN Len(elements) + 1
              ELSE CHOOSE i \in bad : \A j \in bad : i <= j
      appended == SelectSeq(SubSeq(elements, 1, stop - 1),
                            LAMBDA item : Appends(item, year_to_scrape))
  IN  [i \in 1..Len(appended) |-> ItemRecord(appended[i])]

\* djs after the loop over itemListElement
JsonLoop(elements, year_to_scrape) ==
  LET Test(item) == Appends(item, year_to_scrape)
      appended == SelectSeq(elements, Test)
  IN  [i \in 1..Len(appended) |-> ItemRecord(appended[i])]

\* the number of "Skipping a JSON item" messages
JsonSkipped(elements) ==
  Cardinality({ i \in 1..Len(elements) : ItemError(elements[i]) # "none" })

\* next((item for item in graph if item.get("@type") == "ItemList"), None):
\* the index of the first ItemList node, 0 for None
FirstItemList(graph) ==
  IF \A i \in 1..Len(graph) : graph[i].type # "ItemList" THEN 0
  ELSE CHOOSE i \in 1..Len(graph) :
         graph[i].type = "ItemList" /\ \A j \in 1..(i - 1) : graph[j].type # "ItemList"

Early(log) == [raised |-> FALSE, log |-> log, djs |-> << >>, skipped |-> 0]

Raised(exc) == [raised |-> TRUE, log |-> exc, djs |-> << >>, skipped |-> 0]

\* scrape_dj_mag_json(year_to_scrape) on the response doc
scrape_dj_mag_json(doc, year_to_scrape) ==
  IF doc.fetch = "error" THEN Early("Could not fetch main page")
  ELSE IF doc.script = "absent" THEN Early("Could not find JSON-LD script tag")
  ELSE IF doc.script = "undecodable" THEN Raised("JSONDecodeError")
  ELSE IF doc.script = "array" THEN Raised("AttributeError")
  ELSE IF FirstItemList(doc.graph) = 0 THEN Early("Could not find ItemList")
  ELSE LET elements == doc.graph[FirstItemList(doc.graph)].itemListElement
       IN  [raised |-> FALSE, log |-> "",
            djs |-> JsonLoop(elements, year_to_scrape),
            skipped |-> JsonSkipped(elements)]

(***************************************************************************)
(* The documents the site may answer with: every page of at most MaxLinks  *)
(* anchors and every list of at most MaxItems elements over a small        *)
(* alphabet, and pages long enough for the truncation to TopN to act.      *)
(***************************************************************************)
Years == StartYear..(StartYear + MaxSpan)

RECURSIVE Str(_)
\* str(n), n >= 0
Str(n) == IF n < 10 THEN << Chr(48 + n) >> ELSE Str(n \div 10) \o << Chr(48 + (n % 10)) >>

RECURSIVE Join(_)
\* "/".join(segs)
Join(segs) ==
  IF Len(segs) = 1 THEN segs[1] ELSE segs[1] \o << "/" >> \o Join(Tail(segs))

\* the link "/top100djs/<y>/<rank>/<slug>"
Link(y, rank, slug) == Join(<< << >>, Top100Djs, Str(y), rank, slug >>)

SlugX == << "d", "j", "-", "x" >>
SlugXQuoted == << "D", "J", "%", "2", "D", "x" >>
SlugY == << "d", "j", "-", "y" >>
SlugJohn == << "j", "o", "h", "n", "-", "d", "o", "e" >>

\* what an archive page of year y links to: an entry, the same entry under
\* another spelling, another name at the same rank, another rank, an entry
\* of the year before, and a link the pattern rejects (a four-digit rank)
PageLinks(y) ==
  { Link(y, << "5" >>, SlugX), Link(y, << "0", "5" >>, SlugXQuoted),
    Link(y, << "5" >>, SlugY), Link(y, << "1" >>, SlugY),
    Link(y - 1, << "2" >>, SlugX),
    Link(y, << "1", "2", "3", "4" >>, SlugX) }

SeqsUpTo(S, n) == UNION { [1..k -> S] : k \in 0..n }

\* the answers to the request for the archive page of year y
ArchivePages(y) ==
  { [fetch |-> "error", anchors |-> << >>] }
    \cup { [fetch |-> "ok", anchors |-> a] : a \in SeqsUpTo(PageLinks(y), MaxLinks) }

\* a page of n distinct ranks n, n-1, .., 1 for year y
LongAnchors(y, n) == [i \in 1..n |-> Link(y, Str(n + 1 - i), SlugX)]

\* a link with no name after the rank, which the pattern rejects
NamelessLink == Link(StartYear, << "5" >>, << >>)

\* the pages scrape_dj_mag_html is applied to on its own
HtmlPages ==
  (UNION { ArchivePages(y) : y \in Years })
    \cup { [fetch |-> "ok", anchors |-> LongAnchors(y, TopN + 1)] : y \in Years }
    \cup { [fetch |-> "ok", anchors |-> << NamelessLink >>] }

Element(p, u) == [position |-> p, has_url |-> TRUE, url |-> u]

\* well-formed elements of year y, with and without a position
GoodElements(y) == { Element(p, Link(y, << "1" >>, SlugJohn)) : p \in {1, 2, NoneVal} }

\* malformed elements: no url, too few segments, a year that is no integer
BadElements ==
  { [position |-> 1, has_url |-> FALSE, url |-> << >>],
    Element(1, << "x", "/", "y" >>),
    Element(1, Join(<< << >>, Top100Djs, << "l", "a", "t", "e", "s", "t" >>, << "1" >>, SlugJohn >>)) }

\* what the list of the main page holds in year y: elements of the year, an
\* element of the year before, malformed elements
PageElements(y) == GoodElements(y) \cup { Element(1, Link(y - 1, << "1" >>, SlugJohn)) } \cup BadElements

ItemListNode(e) == [type |-> "ItemList", itemListElement |-> e]

WebPageNode == [type |-> "WebPage", itemListElement |-> << >>]

\* positions n, n-1, .., 1 for year y
LongElements(y, n) == [i \in 1..n |-> Element(n + 1 - i, Link(y, Str(n + 1 - i), SlugJohn))]

Object(g) == [fetch |-> "ok", script |-> "object", graph |-> g]

\* the answers to the request for the main page in year y
MainPages(y) ==
  { [fetch |-> "error", script |-> "absent", graph |-> << >>],
    [fetch |-> "ok", script |-> "absent", graph |-> << >>],
    [fetch |-> "ok", script |-> "undecodable", graph |-> << >>],
    [fetch |-> "ok", script |-> "array", graph |-> << >>],
    Object(<< >>), Object(<< WebPageNode >>) }
    \cup { Object(<< WebPageNode, ItemListNode(e) >>) : e \in SeqsUpTo(PageElements(y), MaxItems) }
    \cup { Object(<< ItemListNode(<< >>), ItemListNode(<< e >>) >>) : e \in GoodElements(y) }
    \cup { Object(<< ItemListNode(LongElements(y, TopN + 2)) >>) }

\* the documents scrape_dj_mag_json is applied to on its own
JsonDocs == UNION { MainPages(y) : y \in Years }

(***************************************************************************)
(* State.  main(): pc is the position in main ("loop": the head of the for *)
(* loop, "json" and "html": before the call of that extractor, "process":  *)
(* line 120, "done": main returned, "crashed": an exception left main).    *)
(* visited, json_calls, html_calls, json_out, writes, failed, no_data and  *)
(* dropped record what a run shows: the years whose iteration began, the   *)
(* years each extractor was called with, what scrape_dj_mag_json gave      *)
(* back, the calls of write_csv, the years reported as failed, the "No     *)
(* data was scraped" message, and how many records the slice [:100] cut.   *)
(* fn_in, fn_year, fn_out, fn_done: one call of an extractor on its own.   *)
(***************************************************************************)
VARIABLES pc, current_year, year, year_djs, all_djs, visited, json_calls,
          html_calls, json_out, writes, failed, no_data, dropped,
          fn_in, fn_year, fn_out, fn_done

vars == << pc, current_year, year, year_djs, all_djs, visited, json_calls,
           html_calls, json_out, writes, failed, no_data, dropped,
           fn_in, fn_year, fn_out, fn_done >>

main_vars == << pc, current_year, year, year_djs, all_djs, visited, json_calls,
                html_calls, json_out, writes, failed, no_data, dropped >>

fn_vars == << fn_in, fn_year, fn_out, fn_done >>

NotCalled == [called |-> FALSE, raised |-> FALSE, log |-> "", djs |-> << >>]

OutputDir == << "d", "j", "m", "a", "g", "_", "r", "a", "n", "k", "i", "n", "g", "s" >>

\* os.path.join(output_dir, f"{year}.csv")
YearlyFilename(y) == OutputDir \o << "/" >> \o Str(y) \o << ".", "c", "s", "v" >>

\* os.path.join(output_dir, f"all ({min_year}-{max_year}).csv")
AllFilename(min_year, max_year) ==
  OutputDir \o << "/", "a", "l", "l", " ", "(" >> \o Str(min_year) \o << "-" >>
    \o Str(max_year) \o << ")", ".", "c", "s", "v" >>

\* write_csv(filename, data): the call, as the run shows it (an IOError is
\* caught inside write_csv and changes nothing main reads)
write_csv(filename, data) == Append(writes, [filename |-> filename, data |-> data])

\* TriesJson with the test of line 114 left out
TriesJsonEveryYear(y, cy) == TRUE

\* line 114: the year that tries the JSON-LD page
TriesJson(y, cy) == y = cy

\* FallsBack with the test of line 117 left out
FallsBackAlways(djs) == TRUE

\* line 117: "if not year_djs"
FallsBack(djs) == Len(djs) = 0

\* the comparison of two rank keys raises TypeError: None is compared
RankCompareRaises(l) == Len(l) >= 2 /\ \E i \in 1..Len(l) : l[i].rank = NoneVal

RECURSIVE KeyLeq(_, _)
\* a <= b on key tuples of integers
KeyLeq(a, b) ==
  IF Len(a) = 0 THEN TRUE
  ELSE IF a[1] # b[1] THEN a[1] < b[1]
  ELSE KeyLeq(Tail(a), Tail(b))

\* a stable ascending sort of [key, item] records by key: each record at the
\* place given by the number of records that go before it, which are those
\* of a smaller key and those of an equal key that stand before it
SortStable(l) ==
  LET n == Len(l)
      place == [j \in 1..n |->
                  1 + Cardinality({ k \in 1..n :
                                      \/ ~KeyLeq(l[j].key, l[k].key)
                                      \/ (k < j /\ KeyLeq(l[k].key, l[j].key)) })] \o << >>
  IN  [i \in 1..n |-> l[CHOOSE j \in 1..n : place[j] = i]]

\* the items of a sequence of [key, item] records
Items(l) == [i \in 1..Len(l) |-> l[i].item]

\* the key of line 121: x["rank"]
RankKey(d) == << d.rank >>

\* YearRankKey with the year not negated
YearRankKeyAscending(d) == << d.year, d.rank >>

\* the key of line 132: (-x["year"], x["rank"])
YearRankKey(d) == << 0 - d.year, d.rank >>

\* sorted(djs, key=lambda x: x["rank"])
SortedByRank(djs) ==
  Items(SortStable([i \in 1..Len(djs) |-> [key |-> RankKey(djs[i]), item |-> djs[i]]]))

\* l[:100]
FirstTopN(l) == SubSeq(l, 1, IF Len(l) < TopN THEN Len(l) ELSE TopN)

\* TopOfYear with the sort left out
TopOfYearUnsorted(djs) == FirstTopN(djs)

\* line 121: sorted(year_djs, key=lambda x: x["rank"])[:100]
TopOfYear(djs) == FirstTopN(SortedByRank(djs))

\* line 132: all_djs.sort(key=lambda x: (-x["year"], x["rank"]))
\* (two records of one year never meet here with a None rank: line 121 raised
\* on such a list before it reached all_djs)
SortAll(djs) ==
  Items(SortStable([i \in 1..Len(djs) |-> [key |-> YearRankKey(djs[i]), item |-> djs[i]]]))

\* line 133
MinYear(djs) == CHOOSE y \in { djs[i].year : i \in 1..Len(djs) } :
                  \A j \in 1..Len(djs) : y <= djs[j].year

\* line 134
MaxYear(djs) == CHOOSE y \in { djs[i].year : i \in 1..Len(djs) } :
                  \A j \in 1..Len(djs) : y >= djs[j].year

Init ==
  /\ pc = "loop"
  /\ current_year \in Years
  /\ year = StartYear
  /\ year_djs = << >>
  /\ all_djs = << >>
  /\ visited = {}
  /\ json_calls = << >>
  /\ html_calls = << >>
  /\ json_out = NotCalled
  /\ writes = << >>
  /\ failed = {}
  /\ no_data = FALSE
  /\ dropped = 0
  /\ fn_in = << >>
  /\ fn_year = 0
  /\ fn_out = << >>
  /\ fn_done = FALSE

\* lines 110-114: the loop takes its next year
StartYearIteration ==
  /\ pc = "loop"
  /\ year <= current_year
  /\ visited' = visited \cup {year}
  /\ year_djs' = << >>
  /\ pc' = IF TriesJson(year, current_year) THEN "json" ELSE "html"
  /\ UNCHANGED << current_year, year, all_djs, json_calls, html_calls, json_out,
                  writes, failed, no_data, dropped, fn_vars >>

\* what follows the return of scrape_dj_mag_json: lines 117-120
AfterJson(djs) == IF FallsBack(djs) THEN "html" ELSE "process"

\* line 115: year_djs = scrape_dj_mag_json(year)
CallJson ==
  /\ pc = "json"
  /\ \E doc \in MainPages(year) :
       LET r == scrape_dj_mag_json(doc, year)
       IN  /\ json_calls' = Append(json_calls, year)
           /\ json_out' = [called |-> TRUE, raised |-> r.raised, log |-> r.log, djs |-> r.djs]
           /\ IF r.raised
              THEN pc' = "crashed" /\ UNCHANGED year_djs
              ELSE pc' = AfterJson(r.djs) /\ year_djs' = r.djs
  /\ UNCHANGED << current_year, year, all_djs, visited, html_calls, writes, failed,
                  no_data, dropped, fn_vars >>

\* line 118: year_djs = scrape_dj_mag_html(year)
CallHtml ==
  /\ pc = "html"
  /\ \E page \in ArchivePages(year) :
       /\ html_calls' = Append(html_calls, year)
       /\ year_djs' = scrape_dj_mag_html(page, year)
  /\ pc' = "process"
  /\ UNCHANGED << current_year, year, all_djs, visited, json_calls, json_out, writes,
                  failed, no_data, dropped, fn_vars >>

\* ReportFailure with the loop left at the first failed year
ReportFailureAndStop ==
  /\ failed' = failed \cup {year}
  /\ pc' = "done"
  /\ UNCHANGED << year, year_djs, all_djs, writes, dropped >>

\* lines 125-126 and the loop's step: the year is reported, nothing is kept
ReportFailure ==
  /\ failed' = failed \cup {year}
  /\ year' = year + 1
  /\ pc' = "loop"
  /\ UNCHANGED << year_djs, all_djs, writes, dropped >>

\* lines 120-126: the year's list is kept and written, or the year is reported
ProcessYear ==
  /\ pc = "process"
  /\ IF Len(year_djs) > 0
     THEN IF RankCompareRaises(year_djs)
          THEN /\ pc' = "crashed"
               /\ UNCHANGED << year, year_djs, all_djs, writes, failed, dropped >>
          ELSE /\ year_djs' = TopOfYear(year_djs)
               /\ writes' = write_csv(YearlyFilename(year), year_djs')
               /\ all_djs' = all_djs \o year_djs'
               /\ dropped' = Len(year_djs) - Len(year_djs')
               /\ year' = year + 1
               /\ pc' = "loop"
               /\ UNCHANGED failed
     ELSE ReportFailure
  /\ UNCHANGED << current_year, visited, json_calls, html_calls, json_out, no_data, fn_vars >>

\* lines 128-136: after the loop
Finish ==
  /\ pc = "loop"
  /\ year > current_year
  /\ IF Len(all_djs) = 0
     THEN no_data' = TRUE /\ UNCHANGED << all_djs, writes >>
     ELSE /\ all_djs' = SortAll(all_djs)
          /\ writes' = write_csv(AllFilename(MinYear(all_djs'), MaxYear(all_djs')), all_djs')
          /\ UNCHANGED no_data
  /\ pc' = "done"
  /\ UNCHANGED << current_year, year, year_djs, visited, json_calls, html_calls, json_out,
                  failed, dropped, fn_vars >>

Next == StartYearIteration \/ CallJson \/ CallHtml \/ ProcessYear \/ Finish

Spec == Init /\ [][Next]_vars

(***************************************************************************)
(* One call of an extractor on its own: the response and the year are      *)
(* drawn at the start, the call is the only step.                          *)
(***************************************************************************)
IdleMain ==
  /\ current_year = StartYear
  /\ year = StartYear
  /\ year_djs = << >>
  /\ all_djs = << >>
  /\ visited = {}
  /\ json_calls = << >>
  /\ html_calls = << >>
  /\ json_out = NotCalled
  /\ writes = << >>
  /\ failed = {}
  /\ no_data = FALSE
  /\ dropped = 0

InitHtml ==
  /\ pc = "call_html"
  /\ IdleMain
  /\ fn_in \in HtmlPages
  /\ fn_year \in Years
  /\ fn_out = << >>
  /\ fn_done = FALSE

ApplyHtml ==
  /\ pc = "call_html"
  /\ ~fn_done
  /\ fn_out' = scrape_dj_mag_html(fn_in, fn_year)
  /\ fn_done' = TRUE
  /\ UNCHANGED << main_vars, fn_in, fn_year >>

SpecHtml == InitHtml /\ [][ApplyHtml]_vars

InitJson ==
  /\ pc = "call_json"
  /\ IdleMain
  /\ fn_in \in JsonDocs
  /\ fn_year \in Years
  /\ fn_out = << >>
  /\ fn_done = FALSE

ApplyJson ==
  /\ pc = "call_json"
  /\ ~fn_done
  /\ fn_out' = scrape_dj_mag_json(fn_in, fn_year)
  /\ fn_done' = TRUE
  /\ UNCHANGED << main_vars, fn_in, fn_year >>

SpecJson == InitJson /\ [][ApplyJson]_vars

(***************************************************************************)
(* Vocabulary of the properties.                                           *)
(***************************************************************************)
\* how often x occurs in the sequence l
Count(l, x) == Cardinality({ i \in 1..Len(l) : l[i] = x })

\* main has ended, by returning or by an exception
Ended == pc \in {"done", "crashed"}

\* the extraction of year y is over and gave main a list
Resolved(y) == y < year \/ (y = year /\ pc = "process")

\* the calls of write_csv for the file of year y
YearlyWrites(y) == SelectSeq(writes, LAMBDA w : w.filename = YearlyFilename(y))

\* the calls of write_csv for a consolidated file
AllWrites ==
  SelectSeq(writes, LAMBDA w : \A y \in Years : w.filename # YearlyFilename(y))

\* the ranks of a list are pairwise different
RanksDistinct(l) == \A i, j \in 1..Len(l) : i # j => l[i].rank # l[j].rank

\* the ranks of a list never decrease
RanksAscend(l) == \A i \in 1..(Len(l) - 1) : l[i].rank <= l[i + 1].rank

(***************************************************************************)
(* Properties.                                                             *)
(***************************************************************************)

\* C1: a year that is not current_year never reaches scrape_dj_mag_json, and
\* is resolved by exactly one call of scrape_dj_mag_html.
C1_OtherYearsUsePatternOnly ==
  \A y \in visited :
    y # current_year =>
      /\ Count(json_calls, y) = 0
      /\ Count(html_calls, y) <= 1
      /\ (Resolved(y) => Count(html_calls, y) = 1)

C1_Witness ==
  /\ pc = "done"
  /\ current_year > StartYear
  /\ Count(html_calls, StartYear) = 1
  /\ json_calls = << current_year >>

\* C2: for current_year scrape_dj_mag_json is called first; scrape_dj_mag_html
\* is called for it exactly when scrape_dj_mag_json returned no record,
\* whatever the reason printed, and a non-empty JSON result is the year's list
\* with no archive page fetched.
C2_FallbackOnEmptyOnly ==
  LET nj == Count(json_calls, current_year)
      nh == Count(html_calls, current_year)
      returned == json_out.called /\ ~json_out.raised
  IN  /\ nj <= 1 /\ nh <= 1
      /\ (current_year \in visited /\ pc # "json" => nj = 1)
      /\ (nh = 1 => nj = 1 /\ returned /\ Len(json_out.djs) = 0)
      /\ (returned /\ Len(json_out.djs) = 0 => pc = "html" \/ nh = 1)
      /\ (returned /\ Len(json_out.djs) > 0 =>
            /\ nh = 0
            /\ (pc = "process" => year_djs = json_out.djs))

C2_Witness ==
  /\ pc = "process"
  /\ year = current_year
  /\ json_out.log = "Could not fetch main page"
  /\ Count(html_calls, current_year) = 1
  /\ Len(year_djs) > 0

\* C3: no two records of a list written to <year>.csv have the same rank.
C3_RanksUniquePerYear ==
  \A y \in Years :
    \A k \in 1..Len(YearlyWrites(y)) : RanksDistinct(YearlyWrites(y)[k].data)

\* the graph of a decoded document holds no ItemList node
NoItemList(doc) ==
  doc.script = "object" /\ \A i \in 1..Len(doc.graph) : doc.graph[i].type # "ItemList"

\* C4: with the script block absent, the ItemList absent or the block's text
\* undecodable, scrape_dj_mag_json returns an empty list and raises nothing.
C4_EmptyResultNoException ==
  (/\ fn_done
   /\ fn_in.fetch = "ok"
   /\ (fn_in.script \in {"absent", "undecodable"} \/ NoItemList(fn_in)))
    => (~fn_out.raised /\ Len(fn_out.djs) = 0)

\* C5: what main keeps of a non-empty year's list has at most 100 records, is
\* in ascending rank order, and holds the lowest ranks: every record left out
\* has a rank no lower than every record kept.  It is the list written to the
\* year's file and appended to all_djs.
C5_KeepsLowestRanks ==
  [][(pc = "process" /\ Len(year_djs) > 0 /\ pc' = "loop") =>
       LET kept == year_djs'
       IN  /\ Len(kept) <= 100
           /\ Len(kept) = (IF Len(year_djs) < 100 THEN Len(year_djs) ELSE 100)
           /\ RanksAscend(kept)
           /\ \A i \in 1..Len(kept) : Count(kept, kept[i]) <= Count(year_djs, kept[i])
           /\ \A j \in 1..Len(year_djs) :
                Count(year_djs, year_djs[j]) > Count(kept, year_djs[j]) =>
                  \A i \in 1..Len(kept) : kept[i].rank <= year_djs[j].rank
           /\ writes' = Append(writes, [filename |-> YearlyFilename(year), data |-> kept])
           /\ all_djs' = all_djs \o kept]_vars

C5_Witness == pc = "loop" /\ dropped > 0 /\ Len(year_djs) = 100

\* the years of the records of a list
YearsIn(d) == { d[i].year : i \in 1..Len(d) }

\* C6: a consolidated file is in descending year order and, within a year, in
\* ascending rank order; its records of each year are the list written to
\* that year's file, and no others; its name carries the lowest and the
\* highest year among its records.
C6_ConsolidatedFile ==
  \A k \in 1..Len(AllWrites) :
    LET d == AllWrites[k].data
    IN  /\ Len(d) > 0
        /\ \A i \in 1..(Len(d) - 1) :
             \/ d[i].year > d[i + 1].year
             \/ (d[i].year = d[i + 1].year /\ d[i].rank <= d[i + 1].rank)
        /\ \A y \in Years \cup YearsIn(d) :
             SelectSeq(d, LAMBDA r : r.year = y)
               = (IF Len(YearlyWrites(y)) = 0 THEN << >> ELSE YearlyWrites(y)[1].data)
        /\ \E lo \in YearsIn(d), hi \in YearsIn(d) :
             /\ \A y \in YearsIn(d) : lo <= y /\ y <= hi
             /\ AllWrites[k].filename = AllFilename(lo, hi)

C6_Witness ==
  /\ pc = "done"
  /\ Len(AllWrites) = 1
  /\ Cardinality(YearsIn(AllWrites[1].data)) >= 2

\* a year reported as failed has no file and no record, and once main has
\* ended every later year of the range has had its iteration
FailedYearsLeftOut ==
  \A y \in failed :
    /\ Len(YearlyWrites(y)) = 0
    /\ \A i \in 1..Len(all_djs) : all_djs[i].year # y
    /\ (Ended => \A z \in (y + 1)..current_year : z \in visited)

\* C7: a year for which both extractors gave nothing is reported, adds no
\* record and no file, leaves the records collected so far as they are, and
\* the loop goes on with the next year.
C7_FailedYearIsSkipped ==
  [][/\ (pc = "process" /\ Len(year_djs) = 0) =>
          /\ failed' = failed \cup {year}
          /\ all_djs' = all_djs
          /\ writes' = writes
          /\ pc' = "loop"
          /\ year' = year + 1
     /\ FailedYearsLeftOut']_vars

C7_Witness ==
  /\ pc = "done"
  /\ StartYear \in failed
  /\ current_year > StartYear
  /\ Len(all_djs) > 0

\* C8: when main has ended, if every year of the range gave nothing then main
\* returned after the "No data" message with no call of write_csv, and if a
\* year's file was written then the consolidated file was written exactly
\* once, as the last write.
C8_ConsolidatedWrittenOnce ==
  Ended =>
    /\ (failed = StartYear..current_year =>
          pc = "done" /\ no_data /\ Len(writes) = 0)
    /\ ((\E y \in Years : Len(YearlyWrites(y)) > 0) =>
          Len(AllWrites) = 1 /\ Last(writes) = AllWrites[1])

\* the text every link of year y starts with
YearPrefix(y) == Join(<< << >>, Top100Djs, Str(y), << >> >>)

\* C9: scrape_dj_mag_html returns no (rank, name) pair twice, every record
\* comes from a link of the target year, and the ranks never decrease.
C9_PatternExtractor ==
  fn_done =>
    /\ \A i, j \in 1..Len(fn_out) :
         i # j => << fn_out[i].rank, fn_out[i].name >> # << fn_out[j].rank, fn_out[j].name >>
    /\ \A i \in 1..Len(fn_out) :
         /\ fn_out[i].year = fn_year
         /\ \E k \in 1..Len(fn_in.anchors) :
              LET h == fn_in.anchors[k]
              IN  /\ Len(h) > Len(YearPrefix(fn_year))
                  /\ SubSeq(h, 1, Len(YearPrefix(fn_year))) = YearPrefix(fn_year)
                  /\ PatternMatches(h)
                  /\ LinkRank(h) = fn_out[i].rank
                  /\ LinkName(h) = fn_out[i].name
    /\ RanksAscend(fn_out)

C9_Witness ==
  /\ fn_done
  /\ Len(fn_in.anchors) = 2
  /\ fn_in.anchors[1] # fn_in.anchors[2]
  /\ KeepsLink(fn_in.anchors[1], fn_year)
  /\ KeepsLink(fn_in.anchors[2], fn_year)
  /\ Len(fn_out) = 1

JohnDoe == << "J", "o", "h", "n", " ", "D", "o", "e" >>

\* element e is a well-formed entry of year y: its url is a link of year y
WellFormedFor(e, y) ==
  /\ e.has_url
  /\ \/ e.url = Link(y, << "1" >>, SlugJohn)
     \/ (e.position >= 0 /\ e.url = Link(y, Str(e.position), SlugJohn))

\* C10: from a list of elements scrape_dj_mag_json returns one record per
\* well-formed element of the target year, in the order of the list, with
\* the element's position as rank, the target year and the name of its url;
\* each malformed element is skipped with a message and nothing else is lost.
C10_StructuredExtractor ==
  (/\ fn_done
   /\ fn_in.fetch = "ok"
   /\ fn_in.script = "object"
   /\ ~NoItemList(fn_in))
    => LET elements == fn_in.graph[FirstItemList(fn_in.graph)].itemListElement
           good == SelectSeq(elements, LAMBDA e : WellFormedFor(e, fn_year))
       IN  /\ ~fn_out.raised
           /\ Len(fn_out.djs) = Len(good)
           /\ \A i \in 1..Len(good) :
                fn_out.djs[i] = [year |-> fn_year, rank |-> good[i].position, name |-> JohnDoe]
           /\ fn_out.skipped = Cardinality({ i \in 1..Len(elements) : elements[i] \in BadElements })

C10_Witness ==
  /\ fn_done
  /\ fn_in.script = "object"
  /\ ~NoItemList(fn_in)
  /\ LET elements == fn_in.graph[FirstItemList(fn_in.graph)].itemListElement
     IN  /\ Len(elements) = 2
         /\ elements[1] \in BadElements
         /\ WellFormedFor(elements[2], fn_year)
  /\ Len(fn_out.djs) = 1

====
